---- MODULE Spec2Model ----
(***************************************************************************)
(* Model of snuo1mpy.preprocessor.Preprocessor: construction, organize_raw,*)
(* make_bias, make_dark, make_flat, do_preproc and initialize_self, with   *)
(* the raw directory, the persisted manifests under <topdir>/lists and the *)
(* in-memory fields of the object as state.                                *)
(*                                                                         *)
(* Values are strings.  A number n is written "#n" and str() of it is "n"; *)
(* a pathlib.Path is written "P:<path>" and str() of it is "<path>".       *)
(***************************************************************************)
EXTENDS Integers, Sequences, FiniteSets, TLC

VARIABLES
    frames,     \* ids (into Catalog) of the *.fit files of this night
    cfg,        \* the keyword arguments the script passes to Preprocessor()
    tupleKeys,  \* TRUE: groupby on a one-column list yields 1-tuples, FALSE: scalars
    fs,         \* per frame: where the original is (raw, archive, useless), the
                \* path of the file fitsrenamer wrote and its OBJECT card
    disk,       \* persisted manifests (lists/*.list, lists/*.pkl) and summary_raw.csv
    self,       \* fields of the Preprocessor object
    log,        \* what the last call did: outcome, warnings, I/O, bdf_process calls
    pc,         \* the stage the script of this process has reached
    runs        \* number of processes started so far

vars == <<frames, cfg, tupleKeys, fs, disk, self, log, pc, runs>>

----------------------------------------------------------------------------
(* Bounds *)
MaxFrames == 3
MaxFailAt == 1
MaxRestarts == 1
MaxNonDefault == 1

----------------------------------------------------------------------------
(* Optional values: Python None or a value *)
None == [some |-> FALSE, v |-> <<>>]
Some(x) == [some |-> TRUE, v |-> x]

Min(a, b) == IF a < b THEN a ELSE b

----------------------------------------------------------------------------
(* String functions of Python, as the code uses them *)

\* s[:n]
Take(s, n) == SubSeq(s, 1, Min(n, Len(s)))

\* s[n:]
Drop(s, n) == IF Len(s) <= n THEN "" ELSE SubSeq(s, n + 1, Len(s))

StartsWith(s, p) == Len(s) >= Len(p) /\ SubSeq(s, 1, Len(p)) = p

\* index of the first occurrence of the one-character string c in s, 0 if none
RECURSIVE FindFrom(_, _, _)
FindFrom(s, c, i) ==
    IF i > Len(s) THEN 0
    ELSE IF SubSeq(s, i, i) = c THEN i
    ELSE FindFrom(s, c, i + 1)

\* str.split(c) and, with no maxsplit, str.rsplit(c): every segment
RECURSIVE Split(_, _)
Split(s, c) ==
    LET i == FindFrom(s, c, 1)
    IN IF i = 0 THEN <<s>>
       ELSE <<SubSeq(s, 1, i - 1)>> \o Split(Drop(s, i), c)

LowerChar(c) ==
    CASE c = "B" -> "b" [] c = "D" -> "d" [] c = "F" -> "f" [] c = "K" -> "k"
      [] c = "L" -> "l" [] c = "M" -> "m" [] c = "S" -> "s" [] c = "V" -> "v"
      [] c = "A" -> "a" [] c = "I" -> "i" [] c = "R" -> "r" [] c = "E" -> "e"
      [] c = "T" -> "t" [] c = "Y" -> "y" [] c = "G" -> "g" [] c = "H" -> "h"
      [] OTHER -> c

\* str.lower()
RECURSIVE Lower(_)
Lower(s) ==
    IF Len(s) = 0 THEN ""
    ELSE LowerChar(SubSeq(s, 1, 1)) \o Lower(Drop(s, 1))

\* delimiter.join(seq)
RECURSIVE Join(_, _)
Join(d, seq) ==
    IF Len(seq) = 0 THEN ""
    ELSE IF Len(seq) = 1 THEN seq[1]
    ELSE seq[1] \o d \o Join(d, Tail(seq))

IsNum(v) == StartsWith(v, "#")
IsPath(v) == StartsWith(v, "P:")

\* str(x): the text of a number or of a Path; a str is itself
Str(v) ==
    IF IsNum(v) THEN Drop(v, 1)
    ELSE IF IsPath(v) THEN Drop(v, 2)
    ELSE v

\* Path(x)
MkPath(v) == IF IsPath(v) THEN v ELSE "P:" \o v

\* Path(a) / b
PathJoin(a, b) == MkPath(a) \o "/" \o Str(b)

\* Path(p).name
PathName(p) == LET sp == Split(Str(p), "/") IN sp[Len(sp)]

SeqToSet(s) == {s[i] : i \in 1..Len(s)}

----------------------------------------------------------------------------
(* The directory layout *)
topdir == "P:top"
rawdir == "P:top/raw"
listdir == PathJoin(topdir, "lists")
uselessdir == PathJoin(rawdir, "useless")

----------------------------------------------------------------------------
(* The raw frames a night can hold: file name and header cards.  The entries *)
(* are listed in the order list.sort() gives their paths.                    *)
Catalog == <<
    [name |-> "Skyflat-0001V.fit",   IMAGETYP |-> "Light Frame", OBJECT |-> "flat",
     EXPTIME |-> "#10", FILTER |-> "V", DATE |-> "t1"],
    [name |-> "bias-0001bias.fit",   IMAGETYP |-> "Bias Frame",  OBJECT |-> "",
     EXPTIME |-> "#0",  FILTER |-> "V", DATE |-> "t2"],
    [name |-> "bias-0002V.fit",      IMAGETYP |-> "Light Frame", OBJECT |-> "bias",
     EXPTIME |-> "#10", FILTER |-> "V", DATE |-> "t3"],
    [name |-> "cal-0001V.fit",       IMAGETYP |-> "Dark Frame",  OBJECT |-> "cal",
     EXPTIME |-> "#30", FILTER |-> "V", DATE |-> "t4"],
    [name |-> "dark-0001dk10.fit",   IMAGETYP |-> "DARK",        OBJECT |-> "dark",
     EXPTIME |-> "#10", FILTER |-> "V", DATE |-> "t5"],
    [name |-> "junk.fit",            IMAGETYP |-> "Light Frame", OBJECT |-> "junk",
     EXPTIME |-> "#10", FILTER |-> "V", DATE |-> "t6"],
    [name |-> "sa101-100-0001V.fit", IMAGETYP |-> "Light Frame", OBJECT |-> "sa101-100",
     EXPTIME |-> "#60", FILTER |-> "V", DATE |-> "t7"],
    [name |-> "skyflat-0002V.fit",   IMAGETYP |-> "Light Frame", OBJECT |-> "skyflat",
     EXPTIME |-> "#30", FILTER |-> "V", DATE |-> "t8"] >>

FrameIds == 1..Len(Catalog)

\* ascending sequence of a set of frame ids: the order of the sorted paths
RECURSIVE SortedIds(_)
SortedIds(S) ==
    IF S = {} THEN <<>>
    ELSE LET m == CHOOSE x \in S : \A y \in S : x <= y
         IN <<m>> \o SortedIds(S \ {m})

(* The keyword arguments of Preprocessor(): the defaults, bias frames told by *)
(* EXPTIME == 0, two settings whose bias_group_key is no subset, and one with *)
(* a non-empty bias_group_key.                                                *)
DefaultCfg ==
    [bias_type_key |-> <<"OBJECT">>, bias_type_val |-> <<"bias">>,
     bias_group_key |-> <<>>,
     dark_type_key |-> <<"OBJECT">>, dark_type_val |-> <<"dark">>,
     dark_group_key |-> <<"EXPTIME">>,
     flat_type_key |-> <<"OBJECT">>, flat_type_val |-> <<"skyflat">>,
     flat_group_key |-> <<"FILTER">>]

Configs ==
    { DefaultCfg,
      [DefaultCfg EXCEPT !.bias_type_key = <<"EXPTIME">>, !.bias_type_val = <<"#0">>],
      [DefaultCfg EXCEPT !.bias_group_key = <<"EXPTIME">>],
      [DefaultCfg EXCEPT !.bias_group_key = <<"FILTER">>],
      [DefaultCfg EXCEPT !.bias_group_key = <<"FILTER">>,
                         !.dark_group_key = <<"EXPTIME", "FILTER">>] }

\* self.bias_key, self.dark_key, self.flat_key
bias_key == cfg.bias_type_key \o cfg.bias_group_key
dark_key == cfg.dark_type_key \o cfg.dark_group_key
flat_key == cfg.flat_type_key \o cfg.flat_group_key

----------------------------------------------------------------------------
(* State before the script runs *)
NoLog == [op |-> "", status |-> "", exc |-> "", io |-> <<>>, warns |-> <<>>,
          lookups |-> <<>>, bdf |-> <<>>, args |-> <<>>]

NoObject ==
    [ok |-> FALSE, rawpaths |-> <<>>, newpaths |-> None, summary |-> None,
     objpaths |-> None, reducedpaths |-> None, biaspaths |-> None,
     darkpaths |-> None, flatpaths |-> None]

NoDisk ==
    [newpaths_list |-> None, newpaths_pkl |-> None,
     objpaths_list |-> None, objpaths_pkl |-> None,
     biaspaths_list |-> None, biaspaths_pkl |-> None,
     darkpaths_list |-> None, darkpaths_pkl |-> None,
     flatpaths_list |-> None, flatpaths_pkl |-> None,
     summary_csv |-> None]

\* The frames the nights of the pipeline runs are drawn from: a bias, a dark,
\* two sky flats of one filter and an object
PipelineFrames == {1, 2, 5, 7, 8}

InitWith(pool) ==
    /\ frames \in {S \in SUBSET pool : Cardinality(S) \in 1..MaxFrames}
    /\ cfg \in Configs
    /\ tupleKeys \in BOOLEAN
    /\ fs = [i \in frames |-> [loc |-> "raw", OBJECT |-> Catalog[i].OBJECT, path |-> ""]]
    /\ disk = NoDisk
    /\ self = NoObject
    /\ log = NoLog
    /\ pc = 0
    /\ runs = 0

Init == InitWith(PipelineFrames)
InitOrg == InitWith(FrameIds)

----------------------------------------------------------------------------
(* Preprocessor.__init__ *)

\* a constructor that checks bias_group_key against dark_group_key only
GroupKeyError_DarkOnly ==
    IF ~(SeqToSet(cfg.bias_group_key) \subseteq SeqToSet(cfg.dark_group_key))
    THEN "KeyError: bias_grouped_key must be a subset of dark_group_key."
    ELSE ""

\* the two checks of bias_group_key, in the order the constructor makes them
GroupKeyError ==
    IF ~(SeqToSet(cfg.bias_group_key) \subseteq SeqToSet(cfg.dark_group_key))
    THEN "KeyError: bias_grouped_key must be a subset of dark_group_key."
    ELSE IF ~(SeqToSet(cfg.bias_group_key) \subseteq SeqToSet(cfg.flat_group_key))
    THEN "KeyError: bias_grouped_key must be a subset of flat_group_key."
    ELSE ""

\* list(Path(rawdir).glob('*.fit')), sorted
GlobRaw == SortedIds({i \in frames : fs[i].loc = "raw"})

\* The I/O the constructor has done when it reaches the checks
CtorIO == <<"glob">>

Construct ==
    /\ runs <= MaxRestarts
    /\ runs' = runs + 1
    /\ pc' = 0
    /\ LET err == GroupKeyError
       IN /\ self' = IF err = "" THEN [NoObject EXCEPT !.ok = TRUE, !.rawpaths = GlobRaw]
                     ELSE NoObject
          /\ log' = [NoLog EXCEPT !.op = "__init__",
                                  !.status = IF err = "" THEN "ok" ELSE "raised",
                                  !.exc = err,
                                  !.io = CtorIO]
    /\ UNCHANGED <<frames, cfg, tupleKeys, fs, disk>>

(* The script calls the stages in the documented order: organize_raw,      *)
(* make_bias, make_dark, make_flat, do_preproc.  It may skip or repeat a   *)
(* stage, and a new process may start at any time.                         *)
Reached(stage) ==
    /\ pc <= stage
    /\ pc' = stage
    /\ UNCHANGED runs

----------------------------------------------------------------------------
(* Preprocessor.organize_raw *)

\* The try block of the loop: sp = fpath.name.rsplit('-'); obj_raw = sp[0];
\* counter = sp[-1][:4]; filt_bd = sp[-1][4:].  IndexError is raised by sp[0]
\* or sp[-1] on an empty list only; slices never raise.
ParseName(name) ==
    LET sp == Split(name, "-")
    IN IF Len(sp) = 0
       THEN [IndexError |-> TRUE, obj_raw |-> "", counter |-> "", filt_bd |-> "",
             filt_bd_low |-> ""]
       ELSE [IndexError |-> FALSE,
             obj_raw |-> sp[1],
             counter |-> Take(sp[Len(sp)], 4),
             filt_bd |-> Drop(sp[Len(sp)], 4),
             filt_bd_low |-> Lower(Drop(sp[Len(sp)], 4))]

WarnImgtyp(name, imgtyp, low) ==
    [kind |-> "imgtyp", file |-> name, a |-> imgtyp, b |-> low]
WarnObj(name, hdrobj, tok) ==
    [kind |-> "object", file |-> name, a |-> hdrobj, b |-> tok]

\* a classifier that compares the filename token with 'skyflat'/'domeflat'
\* without lower-casing it
Classify_CaseSensitive(name, imgtyp, hdrobj, p) ==
    IF Lower(imgtyp) \in {"bias", "bias frame"}
    THEN [obj |-> "bias",
          warns |-> IF ~StartsWith(p.filt_bd_low, "b")
                    THEN <<WarnImgtyp(name, imgtyp, p.filt_bd_low)>> ELSE <<>>]
    ELSE IF Lower(imgtyp) \in {"dark", "dark frame"}
    THEN [obj |-> "dark",
          warns |-> IF ~StartsWith(p.filt_bd_low, "d")
                    THEN <<WarnImgtyp(name, imgtyp, p.filt_bd_low)>> ELSE <<>>]
    ELSE IF p.obj_raw \in {"skyflat", "domeflat"}
    THEN [obj |-> p.obj_raw, warns |-> <<>>]
    ELSE [obj |-> p.obj_raw,
          warns |-> IF p.obj_raw # Str(hdrobj)
                    THEN <<WarnObj(name, hdrobj, p.obj_raw)>> ELSE <<>>]

\* The if/elif chain that sets obj: the new OBJECT value and the warnings
Classify(name, imgtyp, hdrobj, p) ==
    IF Lower(imgtyp) \in {"bias", "bias frame"}
    THEN [obj |-> "bias",
          warns |-> IF ~StartsWith(p.filt_bd_low, "b")
                    THEN <<WarnImgtyp(name, imgtyp, p.filt_bd_low)>> ELSE <<>>]
    ELSE IF Lower(imgtyp) \in {"dark", "dark frame"}
    THEN [obj |-> "dark",
          warns |-> IF ~StartsWith(p.filt_bd_low, "d")
                    THEN <<WarnImgtyp(name, imgtyp, p.filt_bd_low)>> ELSE <<>>]
    ELSE IF Lower(p.obj_raw) \in {"skyflat", "domeflat"}
    THEN [obj |-> Lower(p.obj_raw), warns |-> <<>>]
    ELSE [obj |-> p.obj_raw,
          warns |-> IF p.obj_raw # Str(hdrobj)
                    THEN <<WarnObj(name, hdrobj, p.obj_raw)>> ELSE <<>>]

\* a filter that keeps only the flats out of objpaths
IsObjPath_FlatsOnly(obj) == obj \notin {"skyflat", "domeflat"}

\* if obj not in ["skyflat", "domeflat", "bias", "dark"]: objpaths.append(newpath)
IsObjPath(obj) == obj \notin {"skyflat", "domeflat", "bias", "dark"}

\* yfu.fitsrenamer with the default rename_by, mkdir_by and delimiter: the
\* header values joined by the delimiter, under a directory named by OBJECT
FitsRenamer(f, obj) ==
    PathJoin(PathJoin(rawdir, obj),
             Join("-", <<"SNUO_STX16803", obj, "1", "1", f.DATE, f.FILTER,
                         Str(f.EXPTIME)>>) \o ".fits")

\* one row of yfu.make_summary: the file and the header values
SummaryRow(f, obj, newpath) ==
    [file |-> Str(newpath), OBJECT |-> obj, EXPTIME |-> f.EXPTIME, FILTER |-> f.FILTER]

\* where fitsrenamer leaves the original: "If None, the original file will
\* remain there", else it is moved to archive_dir
OriginalAfter(archive_dir) == IF archive_dir = "None" THEN "raw" ELSE "archive"

\* the end of the loop body: fitsrenamer writes the file with the updated
\* header at its new path, and the new path is appended to newpaths and, for
\* an object, to objpaths
OrgRename(acc, id, f, c, newpath) ==
    [acc EXCEPT !.fs[id] = [loc |-> OriginalAfter(acc.archive_dir), OBJECT |-> c.obj,
                            path |-> newpath],
                !.warns = @ \o c.warns,
                !.newpaths = Append(@, newpath),
                !.objpaths = IF IsObjPath(c.obj) THEN Append(@, newpath) ELSE @,
                !.rows = Append(@, SummaryRow(f, c.obj, newpath))]

OrgClassified(acc, id, f, c) == OrgRename(acc, id, f, c, FitsRenamer(f, c.obj))

\* the loop body for the file f of the catalog, its name parsed into p
OrgParsed(acc, idx, failAt, id, f, p) ==
    IF p.IndexError
    THEN \* fpath.rename(uselessdir / fpath.name); continue
         [acc EXCEPT !.fs[id].loc = "useless",
                     !.fs[id].path = PathJoin(uselessdir, f.name)]
    ELSE IF fs[id].loc # "raw"
    THEN [acc EXCEPT !.exc = "FileNotFoundError"]
    ELSE IF failAt = idx
    THEN [acc EXCEPT !.exc = "OSError"]
    ELSE OrgClassified(acc, id, f, Classify(f.name, f.IMAGETYP, f.OBJECT, p))

OrgFile(acc, idx, failAt, id) ==
    OrgParsed(acc, idx, failAt, id, Catalog[id], ParseName(Catalog[id].name))

\* The body of "for fpath in self.rawpaths", for the idx-th path
OrgStep(acc, idx, failAt) == OrgFile(acc, idx, failAt, self.rawpaths[idx])

RECURSIVE OrgLoop(_, _, _)
OrgLoop(acc, idx, failAt) ==
    IF idx > Len(self.rawpaths) \/ acc.exc # "" THEN acc
    ELSE OrgLoop(OrgStep(acc, idx, failAt), idx + 1, failAt)

\* a .list file that holds the file names instead of the paths
ListLines_NamesOnly(paths) == [i \in 1..Len(paths) |-> PathName(paths[i])]

\* the lines of a .list file: f"{str(p)}\n" for each path
ListLines(paths) == [i \in 1..Len(paths) |-> Str(paths[i])]

\* the cells of summary_raw.csv and what pd.read_csv makes of them: a cell of
\* digits is read as a number
RECURSIVE IsDigits(_)
IsDigits(s) ==
    IF Len(s) = 0 THEN TRUE
    ELSE /\ SubSeq(s, 1, 1) \in {"0", "1", "2", "3", "4", "5", "6", "7", "8", "9"}
         /\ IsDigits(Drop(s, 1))

ToCsv(rows) ==
    [i \in 1..Len(rows) |->
        [file |-> Str(rows[i].file), OBJECT |-> Str(rows[i].OBJECT),
         EXPTIME |-> Str(rows[i].EXPTIME), FILTER |-> Str(rows[i].FILTER)]]

\* a reader that keeps every cell as text
ReadCell_AsText(c) == c

ReadCell(c) == IF Len(c) > 0 /\ IsDigits(c) THEN "#" \o c ELSE c

ReadCsv(rows) ==
    [i \in 1..Len(rows) |->
        [file |-> ReadCell(rows[i].file), OBJECT |-> ReadCell(rows[i].OBJECT),
         EXPTIME |-> ReadCell(rows[i].EXPTIME), FILTER |-> ReadCell(rows[i].FILTER)]]

\* After the loop: the manifests are written and kept, then make_summary
\* writes summary_raw.csv (sumfail: that call fails).  r is the loop's result.
OrgReturn(r, sumfail) ==
    /\ fs' = r.fs
    /\ IF r.exc # ""
       THEN /\ UNCHANGED <<disk, self>>
            /\ log' = [NoLog EXCEPT !.op = "organize_raw", !.status = "raised",
                                    !.exc = r.exc, !.warns = r.warns]
       ELSE /\ disk' = [disk EXCEPT
                  !.newpaths_list = Some(ListLines(r.newpaths)),
                  !.objpaths_list = Some(ListLines(r.objpaths)),
                  !.newpaths_pkl = Some(r.newpaths),
                  !.objpaths_pkl = Some(r.objpaths),
                  !.summary_csv = IF sumfail THEN @ ELSE Some(ToCsv(r.rows))]
            /\ self' = [self EXCEPT
                  !.newpaths = Some(r.newpaths),
                  !.objpaths = Some(r.objpaths),
                  !.summary = IF sumfail THEN @ ELSE Some(r.rows)]
            /\ log' = [NoLog EXCEPT !.op = "organize_raw",
                                    !.status = IF sumfail THEN "raised" ELSE "ok",
                                    !.exc = IF sumfail THEN "OSError" ELSE "",
                                    !.warns = r.warns]

organize_raw(archive_dir, failAt) ==
    /\ self.ok
    /\ Reached(1)
    /\ OrgReturn(OrgLoop([newpaths |-> <<>>, objpaths |-> <<>>, rows |-> <<>>,
                          warns |-> <<>>, fs |-> fs, exc |-> "",
                          archive_dir |-> archive_dir], 1, failAt),
                 failAt = Len(self.rawpaths) + 1)
    /\ UNCHANGED <<frames, cfg, tupleKeys>>

----------------------------------------------------------------------------
(* Preprocessor.initialize_self: every field that is still None is read    *)
(* back from its file, when the file exists.                               *)
\* "if self.<field> is None: try: load <file>; except FileNotFoundError: pass"
Load(field, file) == IF ~field.some /\ file.some THEN file ELSE field

\* the "file" column of the table read from summary_raw.csv
FileColumn(tab) == [i \in 1..Len(tab) |-> tab[i].file]

InitializeSelf(s) ==
    [s EXCEPT
        !.summary = IF ~@.some /\ disk.summary_csv.some
                    THEN Some(ReadCsv(disk.summary_csv.v)) ELSE @,
        !.newpaths = IF ~s.summary.some /\ disk.summary_csv.some
                     THEN Some(FileColumn(ReadCsv(disk.summary_csv.v)))
                     ELSE Load(@, disk.newpaths_pkl),
        !.objpaths = Load(@, disk.objpaths_pkl),
        !.biaspaths = Load(@, disk.biaspaths_pkl),
        !.darkpaths = Load(@, disk.darkpaths_pkl),
        !.flatpaths = Load(@, disk.flatpaths_pkl)]

----------------------------------------------------------------------------
(* The Summary Table: selection, grouping, and the key -> path dicts *)

\* st = st[st[k] == v] for each (k, v) of zip(type_key, type_val)
CropByType(rows, tkey, tval) ==
    SelectSeq(rows, LAMBDA r : \A i \in 1..Min(Len(tkey), Len(tval)) : r[tkey[i]] = tval[i])

\* the values of a row in the given columns, in the order of the columns
RowVals(r, cols) == [i \in 1..Len(cols) |-> r[cols[i]]]

\* Order of the characters (ASCII) and of strings, for sorted group keys
Alphabet == "#-./0123456789:ABCDEFGHIJKLMNOPQRSTUVWXYZ_abcdefghijklmnopqrstuvwxyz"
CharCode(c) == FindFrom(Alphabet, c, 1)

RECURSIVE StrLess(_, _)
StrLess(a, b) ==
    IF Len(b) = 0 THEN FALSE
    ELSE IF Len(a) = 0 THEN TRUE
    ELSE LET ca == CharCode(SubSeq(a, 1, 1))
             cb == CharCode(SubSeq(b, 1, 1))
         IN IF ca # cb THEN ca < cb ELSE StrLess(Drop(a, 1), Drop(b, 1))

DigitVal(c) == FindFrom("0123456789", c, 1) - 1

RECURSIVE ToInt(_, _)
ToInt(s, acc) ==
    IF Len(s) = 0 THEN acc
    ELSE ToInt(Drop(s, 1), 10 * acc + DigitVal(SubSeq(s, 1, 1)))

ValLess(a, b) ==
    IF IsNum(a) /\ IsNum(b) THEN ToInt(Drop(a, 1), 0) < ToInt(Drop(b, 1), 0)
    ELSE StrLess(a, b)

RECURSIVE TupleLess(_, _)
TupleLess(a, b) ==
    IF Len(b) = 0 THEN FALSE
    ELSE IF Len(a) = 0 THEN TRUE
    ELSE IF a[1] # b[1] THEN ValLess(a[1], b[1])
    ELSE TupleLess(Tail(a), Tail(b))

RECURSIVE SortedKeys(_)
SortedKeys(S) ==
    IF S = {} THEN <<>>
    ELSE LET m == CHOOSE x \in S : \A y \in S : x = y \/ TupleLess(x, y)
         IN <<m>> \o SortedKeys(S \ {m})

\* st.groupby(cols): the groups in sorted key order.  The key handed to the
\* loop is a tuple, or the bare value when cols has one column and the
\* installed pandas yields scalars for that.
GroupBy(rows, cols) ==
    LET keys == SortedKeys({RowVals(rows[i], cols) : i \in 1..Len(rows)})
    IN [g \in 1..Len(keys) |->
          [val |-> keys[g],
           isTuple |-> Len(cols) # 1 \/ tupleKeys,
           rows |-> SelectSeq(rows, LAMBDA r : RowVals(r, cols) = keys[g])]]

\* d[k] = p
DictSet(d, k, p) ==
    IF \E i \in 1..Len(d) : d[i].k = k
    THEN [i \in 1..Len(d) |-> IF d[i].k = k THEN [k |-> k, p |-> p] ELSE d[i]]
    ELSE Append(d, [k |-> k, p |-> p])

DictHas(d, k) == \E i \in 1..Len(d) : d[i].k = k
DictGet(d, k) == d[CHOOSE i \in 1..Len(d) : d[i].k = k].p

\* list(d.values())
DictValues(d) == [i \in 1..Len(d) |-> d[i].p]

\* fname = delimiter.join([str(x) for x in val]) + ".fits"; Path(savedir) / fname
MasterPath(savedir, val) ==
    PathJoin(savedir, Join("-", [i \in 1..Len(val) |-> Str(val[i])]) \o ".fits")

----------------------------------------------------------------------------
(* Preprocessor.make_bias *)

\* if not isinstance(bias_val, tuple): bias_val = tuple([str(bias_val)])
BiasVal(g) == IF g.isTuple THEN g.val ELSE <<Str(g.val[1])>>

\* the loop body for one group: combine_ccd writes fpath, biaspaths[key] = fpath
BiasStep(acc, bias_val) ==
    [acc EXCEPT !.paths = DictSet(@, bias_val, MasterPath(topdir, bias_val))]

RECURSIVE BiasLoop(_, _, _, _)
BiasLoop(gs, idx, failAt, acc) ==
    IF idx > Len(gs) \/ acc.exc # "" THEN acc
    ELSE IF failAt = idx THEN [acc EXCEPT !.exc = "OSError"]
    ELSE BiasLoop(gs, idx + 1, failAt, BiasStep(acc, BiasVal(gs[idx])))

\* After the loop (r is its result): the manifest is written and kept
BiasReturn(s, r) ==
    IF r.exc # ""
    THEN /\ self' = s
         /\ log' = [NoLog EXCEPT !.op = "make_bias", !.status = "raised", !.exc = r.exc]
         /\ UNCHANGED disk
    ELSE /\ disk' = [disk EXCEPT
                !.biaspaths_list = Some(ListLines(DictValues(r.paths))),
                !.biaspaths_pkl = Some(r.paths)]
         /\ self' = [s EXCEPT !.biaspaths = Some(r.paths)]
         /\ log' = [NoLog EXCEPT !.op = "make_bias", !.status = "ok"]

\* make_bias on the object s that initialize_self left
BiasRun(s, failAt) ==
    IF ~s.summary.some
    THEN /\ self' = s
         /\ log' = [NoLog EXCEPT !.op = "make_bias", !.status = "raised",
                                 !.exc = "AttributeError"]
         /\ UNCHANGED disk
    ELSE BiasReturn(s, BiasLoop(GroupBy(CropByType(s.summary.v, cfg.bias_type_key,
                                                   cfg.bias_type_val), bias_key),
                                1, failAt, [paths |-> <<>>, exc |-> ""]))

make_bias(failAt) ==
    /\ self.ok
    /\ Reached(2)
    /\ BiasRun(InitializeSelf(self), failAt)
    /\ UNCHANGED <<frames, cfg, tupleKeys, fs>>

----------------------------------------------------------------------------
(* Arguments of make_dark, make_flat and do_preproc: the do_* flags and the *)
(* override paths (None is written "None").                                 *)
DefaultArgs ==
    [do_bias |-> TRUE, do_dark |-> TRUE, do_flat |-> TRUE,
     mbiaspath |-> "None", mdarkpath |-> "None", mflatpath |-> "None"]

AllArgs ==
    [do_bias : BOOLEAN, do_dark : BOOLEAN, do_flat : BOOLEAN,
     mbiaspath : {"None", "cal/mbias.fits"},
     mdarkpath : {"None", "cal/mdark.fits"},
     mflatpath : {"None", "cal/mflat.fits"}]

ArgNames == {"do_bias", "do_dark", "do_flat", "mbiaspath", "mdarkpath", "mflatpath"}

NonDefault(a) == Cardinality({n \in ArgNames : a[n] # DefaultArgs[n]})

PreprocArgs == {a \in AllArgs : NonDefault(a) <= MaxNonDefault}
FlatArgs == {a \in PreprocArgs : a.do_flat /\ a.mflatpath = "None"}
DarkArgs == {a \in FlatArgs : a.do_dark /\ a.mdarkpath = "None"}

(* The path of one master frame for one subject, as make_dark and make_flat *)
(* set it: the override, or the entry of the manifest under                 *)
(* tuple(type_val) + tuple(group[group_key].iloc[0]); nothing is assigned   *)
(* when the flag is off and no override is given.                           *)
CorrKey(tval, gkey, row) ==
    tval \o (IF Len(gkey) > 0 THEN RowVals(row, gkey) ELSE <<>>)

Unbound == [exc |-> "", bound |-> FALSE, path |-> "", warns |-> <<>>, lookups |-> <<>>]
Bound(p) == [Unbound EXCEPT !.bound = TRUE, !.path = p]
Raised(e) == [Unbound EXCEPT !.exc = e]

\* the log's note of one subscription self.<role>paths[corr]
Lookup(what, subject, corr) == [what |-> what, subject |-> subject, corr |-> corr]

\* self.<role>paths[corr]
Subscript(manifest, corr) ==
    IF ~manifest.some THEN Raised("TypeError")
    ELSE IF ~DictHas(manifest.v, corr) THEN Raised("KeyError")
    ELSE Bound(DictGet(manifest.v, corr))

SetPathAt(what, subject, manifest, corr) ==
    [Subscript(manifest, corr) EXCEPT !.lookups = <<Lookup(what, subject, corr)>>]

SetPath(what, subject, override, flag, manifest, tval, gkey, row) ==
    IF override # "None" THEN Bound(override)
    ELSE IF flag THEN SetPathAt(what, subject, manifest, CorrKey(tval, gkey, row))
    ELSE Unbound

\* the lookups (and warnings) of one path setting, added to the stage's notes
Looked(acc, r) == [acc EXCEPT !.lookups = @ \o r.lookups]
Noted(acc, r) == [acc EXCEPT !.warns = @ \o r.warns, !.lookups = @ \o r.lookups]

\* the log of a stage called with the arguments a
LogOf(op, a) == [NoLog EXCEPT !.op = op, !.args = a]

\* one call of yfu.bdf_process as the log keeps it
BdfCall(subject, output, b, d, f) ==
    [subject |-> subject, output |-> output,
     mbiaspath |-> b, mdarkpath |-> d, mflatpath |-> f]

----------------------------------------------------------------------------
(* Preprocessor.make_dark *)

\* if not isinstance(dark_val, tuple): dark_val = tuple([dark_val])
GroupVal(g) == g.val

\* bdf_process with the bias path b, then mdark.write and darkpaths[key] = fpath
DarkBdf(acc, dark_val, fpath, b) ==
    IF b.exc # "" THEN [acc EXCEPT !.exc = b.exc]
    ELSE IF ~b.bound THEN [acc EXCEPT !.exc = "UnboundLocalError"]
    ELSE [acc EXCEPT !.bdf = Append(@, BdfCall(fpath, fpath, b.path, "None", "None")),
                     !.paths = DictSet(@, dark_val, fpath)]

DarkAt(s, a, g, acc, fpath, b) == DarkBdf(Looked(acc, b), GroupVal(g), fpath, b)

DarkPath(s, a, g, acc, fpath) ==
    DarkAt(s, a, g, acc, fpath,
           SetPath("Bias", fpath, a.mbiaspath, a.do_bias, s.biaspaths,
                   cfg.bias_type_val, cfg.bias_group_key, g.rows[1]))

\* the loop body for one group
DarkStep(s, a, g, acc) == DarkPath(s, a, g, acc, MasterPath(topdir, GroupVal(g)))

RECURSIVE DarkLoop(_, _, _, _, _, _)
DarkLoop(s, a, gs, idx, failAt, acc) ==
    IF idx > Len(gs) \/ acc.exc # "" THEN acc
    ELSE IF failAt = idx THEN [acc EXCEPT !.exc = "OSError"]
    ELSE DarkLoop(s, a, gs, idx + 1, failAt, DarkStep(s, a, gs[idx], acc))

\* After the loop (r is its result): the manifest is written and kept
DarkReturn(s, a, r) ==
    IF r.exc # ""
    THEN /\ self' = s
         /\ log' = [LogOf("make_dark", a) EXCEPT !.status = "raised", !.exc = r.exc,
                                                !.bdf = r.bdf, !.lookups = r.lookups]
         /\ UNCHANGED disk
    ELSE /\ disk' = [disk EXCEPT
                !.darkpaths_list = Some(ListLines(DictValues(r.paths))),
                !.darkpaths_pkl = Some(r.paths)]
         /\ self' = [s EXCEPT !.darkpaths = Some(r.paths)]
         /\ log' = [LogOf("make_dark", a) EXCEPT !.status = "ok", !.bdf = r.bdf,
                                                !.lookups = r.lookups]

\* make_dark on the object s that initialize_self left
DarkRun(s, a, failAt) ==
    IF ~s.summary.some
    THEN /\ self' = s
         /\ log' = [LogOf("make_dark", a) EXCEPT !.status = "raised",
                                                !.exc = "AttributeError"]
         /\ UNCHANGED disk
    ELSE DarkReturn(s, a,
             DarkLoop(s, a, GroupBy(CropByType(s.summary.v, cfg.dark_type_key,
                                               cfg.dark_type_val), dark_key),
                      1, failAt,
                      [paths |-> <<>>, bdf |-> <<>>, lookups |-> <<>>, exc |-> ""]))

make_dark(a, failAt) ==
    /\ self.ok
    /\ Reached(3)
    /\ DarkRun(InitializeSelf(self), a, failAt)
    /\ UNCHANGED <<frames, cfg, tupleKeys, fs>>

----------------------------------------------------------------------------
(* Preprocessor.make_flat *)

\* flat_orig_path.parent / (flat_orig_path.stem + "_BD.fits")
Stem(sp) == Join(".", SubSeq(sp, 1, Len(sp) - 1))
FlatBdPath(file) == MkPath(Stem(Split(Str(file), ".")) \o "_BD.fits")

\* "for i, flat_row in flat_group.iterrows()": one bdf_process call per row,
\* each with the paths set once for the group

RECURSIVE FlatRows(_, _, _, _, _)
FlatRows(rows, i, b, d, acc) ==
    IF i > Len(rows) \/ acc.exc # "" THEN acc
    ELSE IF ~b.bound \/ ~d.bound THEN [acc EXCEPT !.exc = "UnboundLocalError"]
    ELSE FlatRows(rows, i + 1, b, d,
                  [acc EXCEPT !.bdf = Append(@, BdfCall(rows[i].file,
                                                        FlatBdPath(rows[i].file),
                                                        b.path, d.path, "None"))])

\* combine_ccd of the corrected frames and flatpaths[key] = fpath
FlatCombine(flat_val, fpath, r) ==
    IF r.exc # "" THEN r ELSE [r EXCEPT !.paths = DictSet(@, flat_val, fpath)]

\* the group's frames are corrected with the bias path b and the dark path d
FlatBd(g, failHere, acc, fpath, b, d) ==
    IF b.exc # "" THEN [Looked(acc, b) EXCEPT !.exc = b.exc]
    ELSE IF d.exc # "" THEN [Looked(Looked(acc, b), d) EXCEPT !.exc = d.exc]
    ELSE IF failHere THEN [Looked(Looked(acc, b), d) EXCEPT !.exc = "OSError"]
    ELSE FlatCombine(GroupVal(g), fpath,
                     FlatRows(g.rows, 1, b, d, Looked(Looked(acc, b), d)))

\* the bias and the dark path are set once, from the first row of the group
FlatPaths(s, a, g, failHere, acc, fpath) ==
    FlatBd(g, failHere, acc, fpath,
           SetPath("Bias", fpath, a.mbiaspath, a.do_bias, s.biaspaths,
                   cfg.bias_type_val, cfg.bias_group_key, g.rows[1]),
           SetPath("Dark", fpath, a.mdarkpath, a.do_dark, s.darkpaths,
                   cfg.dark_type_val, cfg.dark_group_key, g.rows[1]))

\* the loop body for one group
FlatStep(s, a, g, failHere, acc) ==
    FlatPaths(s, a, g, failHere, acc, MasterPath(topdir, GroupVal(g)))

RECURSIVE FlatLoop(_, _, _, _, _, _)
FlatLoop(s, a, gs, idx, failAt, acc) ==
    IF idx > Len(gs) \/ acc.exc # "" THEN acc
    ELSE FlatLoop(s, a, gs, idx + 1, failAt,
                  FlatStep(s, a, gs[idx], failAt = idx, acc))

\* After the loop (r is its result): the manifest is written and kept
FlatReturn(s, a, r) ==
    IF r.exc # ""
    THEN /\ self' = s
         /\ log' = [LogOf("make_flat", a) EXCEPT !.status = "raised", !.exc = r.exc,
                                                !.bdf = r.bdf, !.lookups = r.lookups]
         /\ UNCHANGED disk
    ELSE /\ disk' = [disk EXCEPT
                !.flatpaths_list = Some(ListLines(DictValues(r.paths))),
                !.flatpaths_pkl = Some(r.paths)]
         /\ self' = [s EXCEPT !.flatpaths = Some(r.paths)]
         /\ log' = [LogOf("make_flat", a) EXCEPT !.status = "ok", !.bdf = r.bdf,
                                                !.lookups = r.lookups]

\* make_flat on the object s that initialize_self left
FlatRun(s, a, failAt) ==
    IF ~s.summary.some
    THEN /\ self' = s
         /\ log' = [LogOf("make_flat", a) EXCEPT !.status = "raised",
                                                !.exc = "AttributeError"]
         /\ UNCHANGED disk
    ELSE FlatReturn(s, a,
             FlatLoop(s, a, GroupBy(CropByType(s.summary.v, cfg.flat_type_key,
                                               cfg.flat_type_val), flat_key),
                      1, failAt,
                      [paths |-> <<>>, bdf |-> <<>>, lookups |-> <<>>, exc |-> ""]))

make_flat(a, failAt) ==
    /\ self.ok
    /\ Reached(4)
    /\ FlatRun(InitializeSelf(self), a, failAt)
    /\ UNCHANGED <<frames, cfg, tupleKeys, fs>>

----------------------------------------------------------------------------
(* Preprocessor.do_preproc *)

WarnNotAvailable(what, corr) == [kind |-> what, file |-> "", a |-> corr, b |-> ""]

\* "try: path = self.<role>paths[corr]; except (KeyError): path = None; warn"
SubscriptOrWarn(what, manifest, corr) ==
    IF ~manifest.some THEN Raised("TypeError")
    ELSE IF ~DictHas(manifest.v, corr)
    THEN [Bound("None") EXCEPT !.warns = <<WarnNotAvailable(what, corr)>>]
    ELSE Bound(DictGet(manifest.v, corr))

SetPathOrWarnAt(what, subject, manifest, corr) ==
    [SubscriptOrWarn(what, manifest, corr) EXCEPT
        !.lookups = <<Lookup(what, subject, corr)>>]

\* a path setting that looks at the flag first and at the override path only
\* when the flag is off
SetPathOrWarn_FlagFirst(what, subject, override, flag, manifest, tval, gkey, row) ==
    IF flag
    THEN IF Len(gkey) > 0 /\ Len(row) = 0 THEN Raised("IndexError")
         ELSE SetPathOrWarnAt(what, subject, manifest,
                              tval \o (IF Len(gkey) > 0 THEN RowVals(row[1], gkey)
                                       ELSE <<>>))
    ELSE IF override # "None" THEN Bound(override)
    ELSE Unbound

\* The path of one master frame for one object frame: as SetPath, but the
\* lookup is inside "try: ... except (KeyError)", which sets the path to None
\* and warns.  row is the selection of the summary for this file.
SetPathOrWarn(what, subject, override, flag, manifest, tval, gkey, row) ==
    IF override # "None" THEN Bound(override)
    ELSE IF flag
    THEN IF Len(gkey) > 0 /\ Len(row) = 0 THEN Raised("IndexError")
         ELSE SetPathOrWarnAt(what, subject, manifest,
                              tval \o (IF Len(gkey) > 0 THEN RowVals(row[1], gkey)
                                       ELSE <<>>))
    ELSE Unbound

\* CCDData.read and bdf_process with the paths b, d and f
PreprocBdf(fpath, savepath, failHere, acc, nosummary, b, d, f) ==
    IF nosummary THEN [acc EXCEPT !.exc = "TypeError"]
    ELSE IF b.exc # "" THEN [Noted(acc, b) EXCEPT !.exc = b.exc]
    ELSE IF d.exc # "" THEN [Noted(Noted(acc, b), d) EXCEPT !.exc = d.exc]
    ELSE IF f.exc # "" THEN [Noted(Noted(Noted(acc, b), d), f) EXCEPT !.exc = f.exc]
    ELSE IF failHere
    THEN [Noted(Noted(Noted(acc, b), d), f) EXCEPT !.exc = "OSError"]
    ELSE IF ~b.bound \/ ~d.bound \/ ~f.bound
    THEN [Noted(Noted(Noted(acc, b), d), f) EXCEPT !.exc = "UnboundLocalError"]
    ELSE [Noted(Noted(Noted(acc, b), d), f) EXCEPT
             !.bdf = Append(@, BdfCall(fpath, savepath, b.path, d.path, f.path))]

\* the three paths are set for the frame from its row of the summary
PreprocPaths(s, a, fpath, savepath, failHere, acc, row) ==
    PreprocBdf(fpath, savepath, failHere,
               [acc EXCEPT !.savepaths = Append(@, savepath)], ~s.summary.some,
               SetPathOrWarn("Bias", fpath, a.mbiaspath, a.do_bias, s.biaspaths,
                             cfg.bias_type_val, cfg.bias_group_key, row),
               SetPathOrWarn("Dark", fpath, a.mdarkpath, a.do_dark, s.darkpaths,
                             cfg.dark_type_val, cfg.dark_group_key, row),
               SetPathOrWarn("Flat", fpath, a.mflatpath, a.do_flat, s.flatpaths,
                             cfg.flat_type_val, cfg.flat_group_key, row))

\* row = self.summary[self.summary["file"].values == str(fpath)]
SummaryOf(s, fpath) == SelectSeq(s.summary.v, LAMBDA r : r.file = Str(fpath))

\* the loop body for one object frame
PreprocStep(s, a, fpath, failHere, acc) ==
    PreprocPaths(s, a, fpath, PathJoin(topdir, PathName(fpath)), failHere, acc,
                 SummaryOf(s, fpath))

RECURSIVE PreprocLoop(_, _, _, _, _)
PreprocLoop(s, a, idx, failAt, acc) ==
    IF idx > Len(s.objpaths.v) \/ acc.exc # "" THEN acc
    ELSE PreprocLoop(s, a, idx + 1, failAt,
                     PreprocStep(s, a, s.objpaths.v[idx], failAt = idx, acc))

\* After the loop (r is its result): self.reducedpaths = savepaths
PreprocReturn(s, a, r) ==
    IF r.exc # ""
    THEN /\ self' = s
         /\ log' = [LogOf("do_preproc", a) EXCEPT !.status = "raised", !.exc = r.exc,
                                                 !.bdf = r.bdf, !.warns = r.warns,
                                                 !.lookups = r.lookups]
    ELSE /\ self' = [s EXCEPT !.reducedpaths = Some(r.savepaths)]
         /\ log' = [LogOf("do_preproc", a) EXCEPT !.status = "ok", !.bdf = r.bdf,
                                                 !.warns = r.warns,
                                                 !.lookups = r.lookups]

\* do_preproc on the object s that initialize_self left
PreprocRun(s, a, failAt) ==
    IF ~s.objpaths.some
    THEN /\ self' = s
         /\ log' = [LogOf("do_preproc", a) EXCEPT !.status = "raised",
                                                 !.exc = "TypeError"]
    ELSE PreprocReturn(s, a,
             PreprocLoop(s, a, 1, failAt,
                         [savepaths |-> <<>>, bdf |-> <<>>, warns |-> <<>>,
                          lookups |-> <<>>, exc |-> ""]))

do_preproc(a, failAt) ==
    /\ self.ok
    /\ Reached(5)
    /\ PreprocRun(InitializeSelf(self), a, failAt)
    /\ UNCHANGED <<frames, cfg, tupleKeys, fs, disk>>

----------------------------------------------------------------------------
(* The calls the script makes: the arguments, and the iteration at which a  *)
(* library call fails (0: none).  A failure counts as a non-default input.  *)
Fails(a) == {k \in 0..MaxFailAt : k = 0 \/ NonDefault(a) < MaxNonDefault}

\* organize_raw's archive_dir: None (the default) or a directory
ArchiveDirs == {"None", "archive"}
OrgFails(archive_dir) ==
    {k \in 0..MaxFailAt :
        k = 0 \/ (IF archive_dir = "None" THEN 0 ELSE 1) < MaxNonDefault}

Next ==
    \/ Construct
    \/ \E ad \in ArchiveDirs : \E k \in OrgFails(ad) : organize_raw(ad, k)
    \/ \E k \in Fails(DefaultArgs) : make_bias(k)
    \/ \E a \in DarkArgs : \E k \in Fails(a) : make_dark(a, k)
    \/ \E a \in FlatArgs : \E k \in Fails(a) : make_flat(a, k)
    \/ \E a \in PreprocArgs : \E k \in Fails(a) : do_preproc(a, k)

Spec == Init /\ [][Next]_vars

\* Construction and organize_raw alone, over every frame of the catalog
NextOrg ==
    \/ Construct
    \/ \E ad \in ArchiveDirs : \E k \in OrgFails(ad) : organize_raw(ad, k)

SpecOrg == InitOrg /\ [][NextOrg]_vars

\* The stages called with any flags and override paths for one correction
\* (its do_* flag off, its m*path given, or both), on a dark, an object and a
\* flat with or without a bias, the default configuration, no library failure
OverrideFrames == {2, 5, 7, 8}

InitOverride == InitWith(OverrideFrames) /\ cfg = DefaultCfg

\* the number of corrections whose flag or override path is not the default
Touched(a) ==
    (IF ~a.do_bias \/ a.mbiaspath # "None" THEN 1 ELSE 0)
    + (IF ~a.do_dark \/ a.mdarkpath # "None" THEN 1 ELSE 0)
    + (IF ~a.do_flat \/ a.mflatpath # "None" THEN 1 ELSE 0)

OverrideArgs == {a \in AllArgs : Touched(a) <= MaxNonDefault}

\* make_flat has no flat arguments, make_dark no dark and no flat arguments
OverrideFlatArgs == {a \in OverrideArgs : a.do_flat /\ a.mflatpath = "None"}
OverrideDarkArgs == {a \in OverrideFlatArgs : a.do_dark /\ a.mdarkpath = "None"}

NextOverride ==
    \/ Construct
    \/ organize_raw("None", 0)
    \/ make_bias(0)
    \/ \E a \in OverrideDarkArgs : make_dark(a, 0)
    \/ \E a \in OverrideFlatArgs : make_flat(a, 0)
    \/ \E a \in OverrideArgs : do_preproc(a, 0)

SpecOverride == InitOverride /\ [][NextOverride]_vars

----------------------------------------------------------------------------
(* Properties *)

SubsetOfDarkAndFlat ==
    /\ SeqToSet(cfg.bias_group_key) \subseteq SeqToSet(cfg.dark_group_key)
    /\ SeqToSet(cfg.bias_group_key) \subseteq SeqToSet(cfg.flat_group_key)

CtorRaised == log.op = "__init__" /\ log.status = "raised"
CtorReturned == log.op = "__init__" /\ log.status = "ok"

\* I/O that reads and changes nothing
ReadOnlyIO == {"glob"}

\* C1 as stated: a constructor call with bias_group_key not a subset of
\* dark_group_key or of flat_group_key raises a KeyError having done no I/O at
\* all, and whenever an object exists bias_group_key is a subset of both.
C1_RaisesBeforeAnyIO ==
    /\ (log.op = "__init__" /\ ~SubsetOfDarkAndFlat) =>
           (CtorRaised /\ StartsWith(log.exc, "KeyError") /\ log.io = <<>>)
    /\ self.ok => SubsetOfDarkAndFlat

\* C1 amended: the KeyError is raised after the raw directory has been listed
\* (the only I/O done, and one that changes nothing) and before anything is
\* created, moved or written; whenever an object exists bias_group_key is a
\* subset of both dark_group_key and flat_group_key.
C1_RaisesAfterScanOnly ==
    /\ (log.op = "__init__" /\ ~SubsetOfDarkAndFlat) =>
           /\ CtorRaised
           /\ StartsWith(log.exc, "KeyError")
           /\ log.io = <<"glob">>
           /\ \A i \in 1..Len(log.io) : log.io[i] \in ReadOnlyIO
           /\ ~self.ok
    /\ CtorReturned => SubsetOfDarkAndFlat
    /\ self.ok => SubsetOfDarkAndFlat

C1_Witness == CtorRaised /\ ~SubsetOfDarkAndFlat /\ runs = 1 /\ disk = NoDisk

----------------------------------------------------------------------------
OrgDone == log.op = "organize_raw" /\ log.status = "ok"

\* fitsrenamer has written the frame at its new path
Renamed(i) == fs[i].loc \in {"raw", "archive"} /\ fs[i].path # ""

\* the role the documented precedence gives a frame with this IMAGETYP and
\* this filename object token
RoleOf(imgtyp, tok) ==
    IF Lower(imgtyp) \in {"bias", "bias frame"} THEN "bias"
    ELSE IF Lower(imgtyp) \in {"dark", "dark frame"} THEN "dark"
    ELSE IF Lower(tok) \in {"skyflat", "domeflat"} THEN "flat"
    ELSE "object"

\* <object>-<counter><filter-or-role>: at least one hyphen
HasShape(name) == Len(Split(name, "-")) >= 2

\* everything before the last hyphen-delimited segment, rejoined with hyphens
TokenBeforeLast(name) ==
    LET sp == Split(name, "-") IN Join("-", SubSeq(sp, 1, Len(sp) - 1))

InManifests(i) ==
    \/ fs[i].path \in SeqToSet(self.newpaths.v)
    \/ fs[i].path \in SeqToSet(self.objpaths.v)
    \/ \E r \in 1..Len(self.summary.v) : self.summary.v[r].file = Str(fs[i].path)

\* C2: when organize_raw has completed, every file of the batch whose name has
\* no hyphen-delimited shape is in the useless directory and in no manifest,
\* and every other file of the batch has been renamed.
C2_MalformedQuarantined ==
    OrgDone =>
        \A k \in 1..Len(self.rawpaths) :
            LET i == self.rawpaths[k]
            IN IF HasShape(Catalog[i].name)
               THEN Renamed(i)
               ELSE fs[i].loc = "useless" /\ ~InManifests(i)

\* C7: when organize_raw has completed, an object frame's OBJECT value is the
\* file name up to its last hyphen-delimited segment ('sa101-100' for
\* 'sa101-100-0001V.fit').
C7_ObjectIsAllButLastSegment ==
    OrgDone =>
        \A k \in 1..Len(self.rawpaths) :
            LET i == self.rawpaths[k]
                tok == TokenBeforeLast(Catalog[i].name)
            IN (HasShape(Catalog[i].name) /\ RoleOf(Catalog[i].IMAGETYP, tok) = "object")
                   => fs[i].OBJECT = tok

HasWarn(kind, name) ==
    \E w \in 1..Len(log.warns) : log.warns[w].kind = kind /\ log.warns[w].file = name

\* C8: when organize_raw has completed, every frame of the batch is in newpaths
\* and carries the OBJECT value of its role: 'bias' / 'dark' for IMAGETYP
\* bias / dark, with an IMAGETYP warning exactly when the trailing token does
\* not start with 'b' / 'd'; else the lower-cased token for a token that is
\* skyflat or domeflat in any case, with no warning; else the filename token
\* itself, with an OBJECT warning exactly when the header OBJECT differed.
C8_RolePrecedence ==
    OrgDone =>
        /\ Len(self.newpaths.v) = Len(self.rawpaths)
        /\ \A k \in 1..Len(self.rawpaths) :
            LET i == self.rawpaths[k]
                f == Catalog[i]
                p == ParseName(f.name)
                role == RoleOf(f.IMAGETYP, p.obj_raw)
            IN /\ Renamed(i)
               /\ self.newpaths.v[k] = fs[i].path
               /\ role = "bias" =>
                    /\ fs[i].OBJECT = "bias"
                    /\ HasWarn("imgtyp", f.name) <=> ~StartsWith(p.filt_bd_low, "b")
                    /\ ~HasWarn("object", f.name)
               /\ role = "dark" =>
                    /\ fs[i].OBJECT = "dark"
                    /\ HasWarn("imgtyp", f.name) <=> ~StartsWith(p.filt_bd_low, "d")
                    /\ ~HasWarn("object", f.name)
               /\ role = "flat" =>
                    /\ fs[i].OBJECT = Lower(p.obj_raw)
                    /\ fs[i].OBJECT \in {"skyflat", "domeflat"}
                    /\ ~HasWarn("imgtyp", f.name) /\ ~HasWarn("object", f.name)
               /\ role = "object" =>
                    /\ fs[i].OBJECT = p.obj_raw
                    /\ HasWarn("object", f.name) <=> p.obj_raw # f.OBJECT
                    /\ ~HasWarn("imgtyp", f.name)

\* a batch with an IMAGETYP warning, an upper-case sky flat and an object frame
C8_Witness ==
    /\ OrgDone
    /\ \E w \in 1..Len(log.warns) : log.warns[w].kind = "imgtyp"
    /\ \E i \in frames : Renamed(i) /\ fs[i].OBJECT = "skyflat"
                         /\ Catalog[i].name = "Skyflat-0001V.fit"
    /\ \E i \in frames : Renamed(i)
                         /\ RoleOf(Catalog[i].IMAGETYP, ParseName(Catalog[i].name).obj_raw)
                                = "object"

FrameOfPath(p) == CHOOSE i \in frames : fs[i].path = p

IsObjectRole(p) ==
    LET f == Catalog[FrameOfPath(p)]
    IN RoleOf(f.IMAGETYP, ParseName(f.name).obj_raw) = "object"

\* C9 as stated: when organize_raw has completed, objpaths is the sub-sequence
\* of newpaths of the frames of role object, whatever their filename token.
C9_ObjpathsAreObjectRole ==
    OrgDone => self.objpaths.v = SelectSeq(self.newpaths.v, IsObjectRole)

IsObjectRoleNotNamedBiasDark(p) ==
    LET f == Catalog[FrameOfPath(p)]
    IN /\ RoleOf(f.IMAGETYP, ParseName(f.name).obj_raw) = "object"
       /\ ParseName(f.name).obj_raw \notin {"bias", "dark"}

\* C9 amended: when organize_raw has completed, objpaths (in memory and in
\* objpaths.pkl) is the sub-sequence of newpaths of the frames of role object
\* whose filename token is not exactly 'bias' or 'dark', in the same order.
C9_ObjpathsExceptNamedBiasDark ==
    OrgDone =>
        /\ self.objpaths.v = SelectSeq(self.newpaths.v, IsObjectRoleNotNamedBiasDark)
        /\ disk.objpaths_pkl = self.objpaths

\* a batch holding an object-role frame named 'bias' and one in objpaths
C9_Witness ==
    /\ OrgDone
    /\ \E i \in frames : ParseName(Catalog[i].name).obj_raw = "bias"
                         /\ Catalog[i].IMAGETYP = "Light Frame"
                         /\ Renamed(i)
    /\ Len(self.objpaths.v) > 0

----------------------------------------------------------------------------
(* Properties of the stages that use the master frames *)

Corrections == {"Bias", "Dark", "Flat"}

FlagOf(c) == CASE c = "Bias" -> log.args.do_bias
               [] c = "Dark" -> log.args.do_dark
               [] c = "Flat" -> log.args.do_flat

OverrideOf(c) == CASE c = "Bias" -> log.args.mbiaspath
                   [] c = "Dark" -> log.args.mdarkpath
                   [] c = "Flat" -> log.args.mflatpath

ManifestOf(c) == CASE c = "Bias" -> self.biaspaths
                   [] c = "Dark" -> self.darkpaths
                   [] c = "Flat" -> self.flatpaths

TypeValOf(c) == CASE c = "Bias" -> cfg.bias_type_val
                  [] c = "Dark" -> cfg.dark_type_val
                  [] c = "Flat" -> cfg.flat_type_val

GroupKeyOf(c) == CASE c = "Bias" -> cfg.bias_group_key
                   [] c = "Dark" -> cfg.dark_group_key
                   [] c = "Flat" -> cfg.flat_group_key

PathIn(rec, c) == CASE c = "Bias" -> rec.mbiaspath
                    [] c = "Dark" -> rec.mdarkpath
                    [] c = "Flat" -> rec.mflatpath

\* the correction is enabled and not overridden
LooksUp(c) == FlagOf(c) /\ OverrideOf(c) = "None"

\* the key of a frame for a correction, from the frame's own summary row
OwnKey(c, row) == TypeValOf(c) \o RowVals(row, GroupKeyOf(c))

RowsOf(file) == SelectSeq(self.summary.v, LAMBDA r : r.file = Str(file))

AllManifestsLoaded ==
    self.biaspaths.some /\ self.darkpaths.some /\ self.flatpaths.some

\* C3: after a do_preproc call in which no library call failed, every object
\* frame with an enabled, not overridden correction whose key is missing from
\* the (loaded) manifest has been handed to bdf_process with None for that
\* correction and the looked-up paths for the corrections that resolved, a
\* warning names the correction and the key, and the frame's output path is in
\* reducedpaths.
C3_LookupMissSkipsOneCorrection ==
    (/\ log.op = "do_preproc" /\ log.exc # "OSError"
     /\ self.objpaths.some /\ self.summary.some /\ AllManifestsLoaded) =>
        \A k \in 1..Len(self.objpaths.v) :
            LET fpath == self.objpaths.v[k]
                rows == RowsOf(fpath)
            IN Len(rows) > 0 =>
                 \A c \in Corrections :
                    (LooksUp(c) /\ ~DictHas(ManifestOf(c).v, OwnKey(c, rows[1]))) =>
                        /\ \E j \in 1..Len(log.bdf) :
                              /\ log.bdf[j].subject = fpath
                              /\ PathIn(log.bdf[j], c) = "None"
                              /\ \A c2 \in Corrections :
                                    (LooksUp(c2)
                                     /\ DictHas(ManifestOf(c2).v, OwnKey(c2, rows[1])))
                                    => PathIn(log.bdf[j], c2)
                                         = DictGet(ManifestOf(c2).v, OwnKey(c2, rows[1]))
                        /\ \E w \in 1..Len(log.warns) :
                              /\ log.warns[w].kind = c
                              /\ log.warns[w].a = OwnKey(c, rows[1])
                        /\ self.reducedpaths.some
                        /\ PathJoin(topdir, PathName(fpath))
                              \in SeqToSet(self.reducedpaths.v)

\* the groups of a role in the current summary
GroupsOf(tkey, tval, key) ==
    GroupBy(CropByType(self.summary.v, tkey, tval), key)

AllBuilt(gs, manifest) ==
    /\ manifest.some
    /\ \A g \in 1..Len(gs) : DictHas(manifest.v, gs[g].val)

\* C4: a make_dark call with do_bias and no override, or a make_flat call with
\* the default arguments, in which no library call failed and the manifests it
\* reads are loaded, returns normally and has recorded a master frame for every
\* group, whether or not the looked-up keys were found.
C4_BuildSurvivesLookupMiss ==
    /\ (/\ log.op = "make_dark" /\ LooksUp("Bias")
        /\ log.exc \notin {"OSError", "AttributeError"} /\ self.biaspaths.some) =>
            /\ log.status = "ok"
            /\ AllBuilt(GroupsOf(cfg.dark_type_key, cfg.dark_type_val, dark_key),
                        self.darkpaths)
    /\ (/\ log.op = "make_flat" /\ LooksUp("Bias") /\ LooksUp("Dark")
        /\ log.exc \notin {"OSError", "AttributeError"}
        /\ self.biaspaths.some /\ self.darkpaths.some) =>
            /\ log.status = "ok"
            /\ AllBuilt(GroupsOf(cfg.flat_type_key, cfg.flat_type_val, flat_key),
                        self.flatpaths)

\* position of a column in a group key
IndexOf(seq, x) == CHOOSE i \in 1..Len(seq) : seq[i] = x

\* V restricted to bias_group_key, in bias_group_key order, where V are the
\* values of a group in the columns gkey
Restricted(V, gkey) ==
    [j \in 1..Len(cfg.bias_group_key) |-> V[IndexOf(gkey, cfg.bias_group_key[j])]]

\* C5: in a make_dark call with do_bias and no override, the key looked up for
\* a dark group with GroupKey values V is bias_type_val followed by V restricted
\* to bias_group_key (bias_type_val alone when bias_group_key is empty); and
\* when the summary holds bias frames with those bias GroupKey values and
\* make_bias has built the bias manifest, that key is a key of the manifest.
C5_DarkLooksUpBuiltBiasKey ==
    (log.op = "make_dark" /\ LooksUp("Bias") /\ self.summary.some) =>
        LET gs == GroupsOf(cfg.dark_type_key, cfg.dark_type_val, dark_key)
        IN \A l \in 1..Len(log.lookups) :
              \E g \in 1..Len(gs) :
                 LET V == RowVals(gs[g].rows[1], cfg.dark_group_key)
                     R == Restricted(V, cfg.dark_group_key)
                 IN /\ MasterPath(topdir, gs[g].val) = log.lookups[l].subject
                    /\ log.lookups[l].corr = cfg.bias_type_val \o R
                    /\ (cfg.bias_group_key = <<>>) =>
                           log.lookups[l].corr = cfg.bias_type_val
                    /\ (/\ disk.biaspaths_pkl.some /\ self.biaspaths.some
                        /\ \E r \in 1..Len(self.summary.v) :
                              /\ RowVals(self.summary.v[r], cfg.bias_type_key)
                                    = cfg.bias_type_val
                              /\ RowVals(self.summary.v[r], cfg.bias_group_key) = R)
                       => DictHas(self.biaspaths.v, log.lookups[l].corr)

SkippedOrFound(c, rec, row) ==
    (LooksUp(c) /\ ManifestOf(c).some) =>
        PathIn(rec, c) = IF DictHas(ManifestOf(c).v, OwnKey(c, row))
                         THEN DictGet(ManifestOf(c).v, OwnKey(c, row))
                         ELSE "None"

\* C6: in make_flat every flat frame handed to bdf_process carries the master
\* bias and the master dark of its own key, bias_type_val / dark_type_val
\* followed by the frame's own bias_group_key / dark_group_key values (None
\* when the manifest has no such key).
C6_FlatFrameGetsOwnDark ==
    (log.op = "make_flat" /\ self.summary.some) =>
        \A j \in 1..Len(log.bdf) :
            LET rows == RowsOf(log.bdf[j].subject)
            IN /\ Len(rows) > 0
               /\ SkippedOrFound("Bias", log.bdf[j], rows[1])
               /\ SkippedOrFound("Dark", log.bdf[j], rows[1])

RoundTrip(pkl, values, list) ==
    pkl.some =>
        /\ list.some
        /\ \A i \in 1..Len(values) : \E n \in 1..Len(list.v) : list.v[n] = Str(values[i])

\* C10: in every state, whatever stages ran, raised or were run again by a new
\* process, every path held by biaspaths.pkl, darkpaths.pkl, flatpaths.pkl,
\* newpaths.pkl and objpaths.pkl is, as str(path), a line of the .list file of
\* the same manifest.
C10_PklPathsAreListLines ==
    /\ RoundTrip(disk.biaspaths_pkl, DictValues(disk.biaspaths_pkl.v), disk.biaspaths_list)
    /\ RoundTrip(disk.darkpaths_pkl, DictValues(disk.darkpaths_pkl.v), disk.darkpaths_list)
    /\ RoundTrip(disk.flatpaths_pkl, DictValues(disk.flatpaths_pkl.v), disk.flatpaths_list)
    /\ RoundTrip(disk.newpaths_pkl, disk.newpaths_pkl.v, disk.newpaths_list)
    /\ RoundTrip(disk.objpaths_pkl, disk.objpaths_pkl.v, disk.objpaths_list)

\* a second process whose stage raised, with non-empty manifests on disk
C10_Witness ==
    /\ runs = 2
    /\ log.status = "raised"
    /\ log.op \in {"make_dark", "make_flat", "do_preproc"}
    /\ disk.biaspaths_pkl.some /\ Len(disk.biaspaths_pkl.v) > 0
    /\ disk.darkpaths_pkl.some /\ Len(disk.darkpaths_pkl.v) > 0
    /\ disk.objpaths_pkl.some /\ Len(disk.objpaths_pkl.v) > 0

----------------------------------------------------------------------------
(* Properties of repeated and restarted stages *)

\* every frame of the night has been renamed and the manifests are on disk
AlreadyOrganized ==
    /\ disk.newpaths_pkl.some /\ disk.objpaths_pkl.some
    /\ \A i \in frames : Renamed(i)

\* a step that is a call of organize_raw that returned
OrgReturned == log'.op = "organize_raw" /\ log'.status = "ok"

\* C11: a call of organize_raw that returns, made when every frame was already
\* organized, leaves every frame at the same destination path and leaves the
\* renamed-file and object manifests (newpaths.pkl, objpaths.pkl and their
\* .list files) as they were: no entry changed, duplicated or lost.
C11_SecondOrganizeKeepsManifests ==
    [][(AlreadyOrganized /\ OrgReturned) =>
          /\ \A i \in frames : fs'[i].path = fs[i].path
          /\ disk'.newpaths_pkl = disk.newpaths_pkl
          /\ disk'.objpaths_pkl = disk.objpaths_pkl
          /\ disk'.newpaths_list = disk.newpaths_list
          /\ disk'.objpaths_list = disk.objpaths_list]_vars

ManifestKeys(m) == {m[i].k : i \in 1..Len(m)}

\* the distinct CombinedKey value-tuples of the rows of a role in the summary
CombinedKeys(tkey, tval, gkey) ==
    LET rows == CropByType(self.summary.v, tkey, tval)
    IN {RowVals(rows[i], tkey \o gkey) : i \in 1..Len(rows)}

OneEntryPerKey(manifest, tkey, tval, gkey) ==
    /\ manifest.some
    /\ ManifestKeys(manifest.v) = CombinedKeys(tkey, tval, gkey)
    /\ Len(manifest.v) = Cardinality(CombinedKeys(tkey, tval, gkey))
    /\ (gkey = <<>>) => ManifestKeys(manifest.v) \subseteq {tval}

\* C12: when a builder has returned, its manifest has exactly one entry for
\* each distinct CombinedKey value-tuple of the summary rows of its role, keyed
\* by that tuple (the TypeVal values followed by the GroupKey values); with an
\* empty GroupKey the only possible key is tuple(TypeVal).
C12_OneEntryPerCombinedKey ==
    (log.status = "ok" /\ self.summary.some) =>
        /\ (log.op = "make_bias") =>
              OneEntryPerKey(self.biaspaths, cfg.bias_type_key, cfg.bias_type_val,
                             cfg.bias_group_key)
        /\ (log.op = "make_dark") =>
              OneEntryPerKey(self.darkpaths, cfg.dark_type_key, cfg.dark_type_val,
                             cfg.dark_group_key)
        /\ (log.op = "make_flat") =>
              OneEntryPerKey(self.flatpaths, cfg.flat_type_key, cfg.flat_type_val,
                             cfg.flat_group_key)

\* the last call was a stage that sets master-frame paths
SetsPaths == log.op \in {"make_dark", "make_flat", "do_preproc"}

\* C13: in make_dark, make_flat and do_preproc, when the override path of a
\* correction is given, every bdf_process call of the stage gets that path for
\* the correction, whatever the do_* flag and the manifest hold, and the stage
\* makes no lookup and gives no missing-key warning for that correction; a
\* do_preproc that returned has made one such call for each object frame.
C13_OverrideTakesPrecedence ==
    SetsPaths =>
        /\ \A c \in Corrections :
              OverrideOf(c) # "None" =>
                 /\ \A j \in 1..Len(log.bdf) : PathIn(log.bdf[j], c) = OverrideOf(c)
                 /\ \A l \in 1..Len(log.lookups) : log.lookups[l].what # c
                 /\ \A w \in 1..Len(log.warns) : log.warns[w].kind # c
        /\ (log.op = "do_preproc" /\ log.status = "ok") =>
              /\ Len(log.bdf) = Len(self.objpaths.v)
              /\ \A k \in 1..Len(self.objpaths.v) :
                    log.bdf[k].subject = self.objpaths.v[k]

\* a do_preproc that returned, called with do_bias off and a bias override,
\* while the bias manifest holds a master bias
C13_Witness ==
    /\ log.op = "do_preproc" /\ log.status = "ok"
    /\ ~log.args.do_bias /\ log.args.mbiaspath # "None"
    /\ self.biaspaths.some /\ Len(self.biaspaths.v) > 0
    /\ Len(log.bdf) > 0

\* what a freshly constructed Preprocessor on the same directory holds after
\* initialize_self
Reloaded == InitializeSelf([NoObject EXCEPT !.ok = TRUE, !.rawpaths = GlobRaw])

\* the last call was make_dark, make_flat or do_preproc and it raised
StageAborted == SetsPaths /\ log.status = "raised"

\* the three outputs of organize_raw on disk are those of one completed run
OrganizeCompleted ==
    /\ disk.summary_csv.some /\ disk.newpaths_pkl.some /\ disk.objpaths_pkl.some
    /\ FileColumn(disk.summary_csv.v) = ListLines(disk.newpaths_pkl.v)

\* a field the aborted process holds is the one a new process reloads
SameAsHeld(field, reloaded) == field.some => reloaded = field

ReloadsManifests ==
    /\ Reloaded.objpaths = disk.objpaths_pkl
    /\ Reloaded.biaspaths = disk.biaspaths_pkl
    /\ Reloaded.darkpaths = disk.darkpaths_pkl
    /\ Reloaded.flatpaths = disk.flatpaths_pkl
    /\ Reloaded.summary.some
    /\ SameAsHeld(self.summary, Reloaded.summary)
    /\ SameAsHeld(self.objpaths, Reloaded.objpaths)
    /\ SameAsHeld(self.biaspaths, Reloaded.biaspaths)
    /\ SameAsHeld(self.darkpaths, Reloaded.darkpaths)
    /\ SameAsHeld(self.flatpaths, Reloaded.flatpaths)

\* C14 as stated: when make_dark, make_flat or do_preproc has raised after a
\* completed organize_raw, a new Preprocessor holds after initialize_self the
\* summary, objpaths and the bias/dark/flat manifests as persisted and as the
\* aborted process held them, and newpaths equal to the persisted newpaths.pkl.
C14_ReloadEqualsPersisted ==
    (StageAborted /\ OrganizeCompleted) =>
        /\ ReloadsManifests
        /\ Reloaded.newpaths = disk.newpaths_pkl

\* a step in which make_dark, make_flat or do_preproc raises
AbortStep == log'.op \in {"make_dark", "make_flat", "do_preproc"} /\ log'.status = "raised"

\* C14 amended: a make_dark, make_flat or do_preproc call that raises changes
\* no persisted manifest and not the summary file; and after it (organize_raw
\* having completed) a new Preprocessor holds after initialize_self the
\* summary, objpaths and the bias/dark/flat manifests as persisted and as the
\* aborted process held them, while its newpaths is the "file" column of the
\* summary: the persisted paths as strings, not the Path objects of newpaths.pkl.
C14_ReloadEqualsPersistedNewpathsAsStr ==
    /\ [][AbortStep => disk' = disk]_vars
    /\ []((StageAborted /\ OrganizeCompleted) =>
            /\ ReloadsManifests
            /\ Reloaded.newpaths = Some(ListLines(disk.newpaths_pkl.v)))

\* the process that organized the night itself has built a master frame and
\* then a stage of it raised
C14_Witness ==
    /\ StageAborted /\ OrganizeCompleted
    /\ runs = 1
    /\ Len(self.summary.v) > 1
    /\ disk.biaspaths_pkl.some /\ Len(disk.biaspaths_pkl.v) > 0

\* the correction is switched off and no override path is given
Disabled(c) == ~FlagOf(c) /\ OverrideOf(c) = "None"

\* C15: a make_dark, make_flat or do_preproc call with a correction switched
\* off by its flag and without an override path, which did not fail for
\* another reason (a failing library call, a manifest or summary that is not
\* there), returns normally, and every bdf_process call it made has None as the
\* path of that correction.
C15_DisabledCorrectionIsSkipped ==
    \A c \in Corrections :
        (/\ SetsPaths /\ Disabled(c)
         /\ log.exc \notin {"OSError", "AttributeError", "TypeError", "KeyError",
                            "IndexError"}) =>
            /\ log.status = "ok"
            /\ \A j \in 1..Len(log.bdf) : PathIn(log.bdf[j], c) = "None"

\* C16: after a do_preproc call with the default arguments in which no library
\* call failed, with the summary and objpaths loaded and a manifest still None
\* after initialize_self, the call has returned, every object frame was handed
\* to bdf_process with None for the correction of that manifest and with a
\* warning for it, and reducedpaths lists the output of every object frame.
C16_NeverBuiltManifestIsLookupMiss ==
    (/\ log.op = "do_preproc" /\ log.args = DefaultArgs /\ log.exc # "OSError"
     /\ self.objpaths.some /\ self.summary.some
     /\ \E c \in Corrections : ~ManifestOf(c).some) =>
        /\ log.status = "ok"
        /\ self.reducedpaths.some
        /\ self.reducedpaths.v = [k \in 1..Len(self.objpaths.v) |->
                                     PathJoin(topdir, PathName(self.objpaths.v[k]))]
        /\ \A k \in 1..Len(self.objpaths.v) :
              \A c \in Corrections :
                 ~ManifestOf(c).some =>
                    /\ \E j \in 1..Len(log.bdf) :
                          /\ log.bdf[j].subject = self.objpaths.v[k]
                          /\ PathIn(log.bdf[j], c) = "None"
                    /\ \E w \in 1..Len(log.warns) : log.warns[w].kind = c

====
